---- MODULE Spec2Model ----
(***************************************************************************)
(* dmarcator: a milter that rejects mails of configured domains when the   *)
(* DMARC verdict recorded in a local Authentication-Results header is not  *)
(* a pass.  Model of src/main.go: the configuration loaded by main(), one  *)
(* Session object (one per milter connection, created by NewMilter) and    *)
(* the callbacks MailFrom, Header and Headers the milter library invokes   *)
(* on it.                                                                  *)
(*                                                                         *)
(* Strings are sequences of atoms.  Everything the code case-folds (header *)
(* names, authserv-ids, domains) is spelled one character per atom; free   *)
(* text that is only stored and printed may use longer atoms.              *)
(***************************************************************************)
EXTENDS Integers, Sequences, FiniteSets, TLC

VARIABLES
    conf,           \* the Conf struct after main() has loaded and defaulted it
    rejectDomains,  \* the global map[string]bool, as the set of its true keys
    s,              \* the Session object of the connection
    macros,         \* m.Macros of the current transaction
    phase,          \* where the connection is in the milter conversation
    hist,           \* header events delivered in the current transaction
    start,          \* the Session fields as they were when the transaction began
    pre,            \* the Session fields before the last callback
    last,           \* name of the last callback ("NewMilter" after construction)
    resp,           \* the milter.Response the last callback returned
    err,            \* the error the last callback returned (TRUE: non-nil)
    logged          \* the lines the last callback wrote to the logger l

vars == <<conf, rejectDomains, s, macros, phase, hist, start, pre, last, resp, err, logged>>

(***************************************************************************)
(* Bounds of the model.                                                    *)
(***************************************************************************)
MaxHeaders == 2     \* header events delivered per transaction

(***************************************************************************)
(* strings.ToLower and strings.EqualFold on ASCII letters.                 *)
(***************************************************************************)
UpperLetters == <<"A","B","C","D","E","F","G","H","I","J","K","L","M",
                  "N","O","P","Q","R","S","T","U","V","W","X","Y","Z">>
LowerLetters == <<"a","b","c","d","e","f","g","h","i","j","k","l","m",
                  "n","o","p","q","r","s","t","u","v","w","x","y","z">>

\* The lower-case letter of every upper-case letter.
LowerOf ==
    [c \in { UpperLetters[i] : i \in DOMAIN UpperLetters } |->
        LowerLetters[CHOOSE i \in DOMAIN UpperLetters : UpperLetters[i] = c]]

ToLowerChar(c) == IF c \in DOMAIN LowerOf THEN LowerOf[c] ELSE c

ToLower(str) == [i \in 1..Len(str) |-> ToLowerChar(str[i])]

EqualFold(a, b) ==
    \/ a = b
    \/ /\ Len(a) = Len(b)
       /\ \A i \in 1..Len(a) : ToLowerChar(a[i]) = ToLowerChar(b[i])

(***************************************************************************)
(* String literals of the program and of the inputs.                       *)
(***************************************************************************)
HdrFrom    == <<"F","r","o","m">>
HdrAuthres == <<"A","u","t","h","e","n","t","i","c","a","t","i","o","n","-",
                "R","e","s","u","l","t","s">>
HdrSubject == <<"S","u","b","j","e","c","t">>
HdrFromUpper    == <<"F","R","O","M">>
HdrAuthresLower == ToLower(HdrAuthres)

mail_club1_fr == <<"m","a","i","l",".","c","l","u","b","1",".","f","r">>
MAIL_club1_fr == <<"M","A","I","L",".","c","l","u","b","1",".","f","r">>
example_com   == <<"e","x","a","m","p","l","e",".","c","o","m">>
gmail_com     == <<"g","m","a","i","l",".","c","o","m">>
GMAIL_com     == <<"G","M","A","I","L",".","c","o","m">>
Gmail_COM     == <<"G","m","a","i","l",".","C","O","M">>
hotmail_fr    == <<"h","o","t","m","a","i","l",".","f","r">>
HotMail_fr    == <<"H","o","t","M","a","i","l",".","f","r">>

EmptyStr == <<>>

(***************************************************************************)
(* Configuration.  A RejectFmt is a template with one %s: the text before  *)
(* it and the text after it.                                               *)
(***************************************************************************)
DefaultRejectFmt ==
    [before |-> "rejected because of DMARC failure for ", after |-> " overriding policy"]
CustomRejectFmt ==
    [before |-> "rejected because of DMARC failure for ", after |-> " despite p=none"]

\* os.Hostname() of the machine the filter runs on.
Hostname == mail_club1_fr

\* The decoded configuration files main() may be started with.
ConfFiles == {
    [AuthservID |-> mail_club1_fr, RejectDomains |-> <<Gmail_COM, hotmail_fr>>,
     RejectFmt |-> DefaultRejectFmt],
    [AuthservID |-> EmptyStr, RejectDomains |-> <<gmail_com>>,
     RejectFmt |-> CustomRejectFmt] }

\* Mutant: an empty AuthservID is left empty.
LoadConf_NoDefault(file) == file

\* main(): an empty AuthservID defaults to the host name.
LoadConf(file) ==
    [file EXCEPT !.AuthservID = IF file.AuthservID = EmptyStr THEN Hostname ELSE @]

\* main(): rejectDomains[strings.ToLower(domain)] = true for every configured domain.
BuildRejectDomains(list) == { ToLower(list[i]) : i \in DOMAIN list }

(***************************************************************************)
(* authres.Parse.  The wire form of an Authentication-Results value is the *)
(* authserv-id followed by result entries "method=value header.from=dom";  *)
(* an entry whose "=value" is missing (value NoValue) makes the parse fail.*)
(***************************************************************************)
NoValue == "<missing>"
ResultPass == "pass"

ArValue(id, entries) == [form |-> "authres", id |-> id, entries |-> entries]
Entry(method, value, from) == [method |-> method, value |-> value, from |-> from]
Text(atoms) == [form |-> "text", text |-> atoms]

\* One typed result per entry; only a dmarc entry becomes a *authres.DMARCResult.
TypedResult(e) ==
    IF e.method = "dmarc"
    THEN [kind |-> "DMARCResult", Value |-> e.value, From |-> e.from]
    ELSE [kind |-> "OtherResult", Value |-> e.value, From |-> EmptyStr]

Parse(value) ==
    IF \E i \in DOMAIN value.entries : value.entries[i].value = NoValue
    THEN [err |-> TRUE, id |-> EmptyStr, results |-> <<>>]
    ELSE [err |-> FALSE, id |-> value.id,
          results |-> [i \in DOMAIN value.entries |-> TypedResult(value.entries[i])]]

(***************************************************************************)
(* The Session struct and the fieldsFound bit set.                         *)
(***************************************************************************)
fieldAuthres == 1
fieldFrom    == 2
fieldLast    == 4
fieldAll     == fieldLast - 1

\* x & f and x | f for a single-bit f.
BitAnd(x, f) == IF (x \div f) % 2 = 1 THEN f ELSE 0
BitOr(x, f)  == IF BitAnd(x, f) = 0 THEN x + f ELSE x

\* The nil *authres.DMARCResult.
NilResult == [kind |-> "nil", Value |-> "", From |-> EmptyStr]

\* &Session{}: every field at its zero value.
ZeroSession ==
    [fieldsFound |-> 0, dmarcResult |-> NilResult, shouldReject |-> FALSE,
     headerFrom |-> EmptyStr]

(***************************************************************************)
(* Responses and log lines.                                                *)
(***************************************************************************)
RespAccept   == [code |-> "ActAccept", text |-> <<>>]
RespContinue == [code |-> "ActContinue", text |-> <<>>]

\* fmt.Sprintf of a template with one %s.
Sprintf(fmt, arg) == <<fmt.before>> \o arg \o <<fmt.after>>

RECURSIVE Escape(_)
\* The body of a %q quotation: a double quote or a backslash gets a backslash.
Escape(str) ==
    IF str = <<>> THEN <<>>
    ELSE IF Head(str) \in {"\"", "\\"}
         THEN <<"\\", Head(str)>> \o Escape(Tail(str))
         ELSE <<Head(str)>> \o Escape(Tail(str))

\* %q: the string in double quotes, escaped.
Quote(str) == <<"\"">> \o Escape(str) \o <<"\"">>

\* Mutant: the audit line is written without the queue id in front.
AuditLine_NoPrefix(queueID, action, dmarc, from, addr) ==
    [prefix |-> "", line |-> "audit", action |-> action, dmarc |-> dmarc,
     from |-> from, addr |-> <<"\"">> \o Escape(addr) \o <<"\"">>]

\* "%s: <action> dmarc=%v from=%s addr=%q"
AuditLine(queueID, action, dmarc, from, addr) ==
    [prefix |-> queueID, line |-> "audit", action |-> action, dmarc |-> dmarc,
     from |-> from, addr |-> Quote(addr)]

\* "%s: failed to parse header: %v: %q"
ParseFailLine(queueID, name, value) ==
    [prefix |-> queueID, line |-> "failed to parse header", action |-> "",
     dmarc |-> "", from |-> name, addr |-> value]

\* "unknown" where the verdict's domain would stand.
Unknown == <<"u","n","k","n","o","w","n">>

(***************************************************************************)
(* The decision rule and the rejection response.                           *)
(***************************************************************************)
\* Mutant: the table is looked up with the domain as received, not lower-cased.
shouldReject_NoFold(result) ==
    /\ result.Value # ResultPass
    /\ result.From \in rejectDomains

\* Mutant: every non-pass verdict rejects, whatever the domain.
shouldReject_AnyDomain(result) ==
    result.Value # ResultPass

\* Mutant: only an outright fail rejects.
shouldReject_FailOnly(result) ==
    /\ result.Value = "fail"
    /\ ToLower(result.From) \in rejectDomains

shouldRejectDMARCRes(result) ==
    /\ result.Value # ResultPass
    /\ ToLower(result.From) \in rejectDomains

\* Mutant: the enhanced status code is left out of the reply.
newRejectResponse_NoStatus(domain) ==
    [code |-> "ActReplyCode", text |-> <<"550 ">> \o Sprintf(conf.RejectFmt, domain)]

newRejectResponse(domain) ==
    [code |-> "ActReplyCode", text |-> <<"550 5.7.1 ">> \o Sprintf(conf.RejectFmt, domain)]

(***************************************************************************)
(* The callbacks, as functions from the Session and the arguments to the   *)
(* Session afterwards, the response, the error and the lines logged.       *)
(***************************************************************************)
Return(sess, response, lines) ==
    [s |-> sess, resp |-> response, err |-> FALSE, logged |-> lines]

\* Mutant: the {auth_authen} macro is not looked at.
MailFrom_IgnoreAuth(sess, m) == Return(sess, RespContinue, <<>>)

MailFromCall(sess, m) ==
    IF m.auth_authen # ""
    THEN Return(sess, RespAccept, <<>>)
    ELSE Return(sess, RespContinue, <<>>)

RECURSIVE ApplyResults_FirstWins(_, _)
\* Mutant: the loop stops at the first DMARCResult.
ApplyResults_FirstWins(sess, results) ==
    IF results = <<>> THEN sess
    ELSE LET r == Head(results) IN
         IF r.kind = "DMARCResult"
         THEN [sess EXCEPT !.fieldsFound = BitOr(@, fieldAuthres),
                           !.dmarcResult = r,
                           !.shouldReject = shouldRejectDMARCRes(r)]
         ELSE ApplyResults_FirstWins(sess, Tail(results))

RECURSIVE ApplyResults_StickyReject(_, _)
\* Mutant: the cached decision is raised by a rejecting entry and never
\* lowered again by a later one.
ApplyResults_StickyReject(sess, results) ==
    IF results = <<>> THEN sess
    ELSE LET r == Head(results) IN
         IF r.kind = "DMARCResult"
         THEN ApplyResults_StickyReject(
                [sess EXCEPT !.fieldsFound = BitOr(@, fieldAuthres),
                             !.dmarcResult = r,
                             !.shouldReject = @ \/ shouldRejectDMARCRes(r)],
                Tail(results))
         ELSE ApplyResults_StickyReject(sess, Tail(results))

RECURSIVE ApplyResults_MarkAny(_, _)
\* Mutant: the field is marked as found for any result, a DMARCResult or not.
ApplyResults_MarkAny(sess, results) ==
    IF results = <<>> THEN sess
    ELSE LET r == Head(results) IN
         IF r.kind = "DMARCResult"
         THEN ApplyResults_MarkAny(
                [sess EXCEPT !.fieldsFound = BitOr(@, fieldAuthres),
                             !.dmarcResult = r,
                             !.shouldReject = shouldRejectDMARCRes(r)],
                Tail(results))
         ELSE ApplyResults_MarkAny(
                [sess EXCEPT !.fieldsFound = BitOr(@, fieldAuthres)],
                Tail(results))

RECURSIVE ApplyResults(_, _)
\* for _, result := range results: each DMARCResult overwrites the verdict.
ApplyResults(sess, results) ==
    IF results = <<>> THEN sess
    ELSE LET r == Head(results) IN
         IF r.kind = "DMARCResult"
         THEN ApplyResults(
                [sess EXCEPT !.fieldsFound = BitOr(@, fieldAuthres),
                             !.dmarcResult = r,
                             !.shouldReject = shouldRejectDMARCRes(r)],
                Tail(results))
         ELSE ApplyResults(sess, Tail(results))

\* Mutant: an Authentication-Results field is evaluated even when one has
\* already been captured.
Header_NoAuthresGuard(sess, name, value, m) ==
    IF sess.fieldsFound = fieldAll
    THEN Return(sess, RespContinue, <<>>)
    ELSE IF BitAnd(sess.fieldsFound, fieldFrom) = 0 /\ EqualFold(name, HdrFrom)
    THEN Return([sess EXCEPT !.fieldsFound = BitOr(@, fieldFrom),
                             !.headerFrom = value.text],
                RespContinue, <<>>)
    ELSE IF EqualFold(name, HdrAuthres)
    THEN LET p == Parse(value) IN
         IF p.err
         THEN Return(sess, RespContinue, <<ParseFailLine(m.i, name, value)>>)
         ELSE IF ~EqualFold(p.id, conf.AuthservID)
         THEN Return(sess, RespContinue, <<>>)
         ELSE Return(ApplyResults(sess, p.results), RespContinue, <<>>)
    ELSE Return(sess, RespContinue, <<>>)

\* Mutant: the rejection is answered as soon as the verdict is captured.
Header_RejectEarly(sess, name, value, m) ==
    IF sess.fieldsFound = fieldAll
    THEN Return(sess, RespContinue, <<>>)
    ELSE IF BitAnd(sess.fieldsFound, fieldFrom) = 0 /\ EqualFold(name, HdrFrom)
    THEN Return([sess EXCEPT !.fieldsFound = BitOr(@, fieldFrom),
                             !.headerFrom = value.text],
                RespContinue, <<>>)
    ELSE IF BitAnd(sess.fieldsFound, fieldAuthres) = 0 /\ EqualFold(name, HdrAuthres)
    THEN LET p == Parse(value) IN
         IF p.err
         THEN Return(sess, RespContinue, <<ParseFailLine(m.i, name, value)>>)
         ELSE IF ~EqualFold(p.id, conf.AuthservID)
         THEN Return(sess, RespContinue, <<>>)
         ELSE LET after == ApplyResults(sess, p.results) IN
              IF after.shouldReject
              THEN Return(after, newRejectResponse(after.dmarcResult.From), <<>>)
              ELSE Return(after, RespContinue, <<>>)
    ELSE Return(sess, RespContinue, <<>>)

\* Mutant: a value that does not parse is reported to the MTA as an error.
Header_ParseError(sess, name, value, m) ==
    IF sess.fieldsFound = fieldAll
    THEN Return(sess, RespContinue, <<>>)
    ELSE IF BitAnd(sess.fieldsFound, fieldFrom) = 0 /\ EqualFold(name, HdrFrom)
    THEN Return([sess EXCEPT !.fieldsFound = BitOr(@, fieldFrom),
                             !.headerFrom = value.text],
                RespContinue, <<>>)
    ELSE IF BitAnd(sess.fieldsFound, fieldAuthres) = 0 /\ EqualFold(name, HdrAuthres)
    THEN LET p == Parse(value) IN
         IF p.err
         THEN [Return(sess, RespContinue, <<ParseFailLine(m.i, name, value)>>)
                 EXCEPT !.err = TRUE]
         ELSE IF ~EqualFold(p.id, conf.AuthservID)
         THEN Return(sess, RespContinue, <<>>)
         ELSE Return(ApplyResults(sess, p.results), RespContinue, <<>>)
    ELSE Return(sess, RespContinue, <<>>)

\* Mutant: the early return is taken as soon as the From field is captured.
Header_ExitOnFrom(sess, name, value, m) ==
    IF BitAnd(sess.fieldsFound, fieldFrom) # 0
    THEN Return(sess, RespContinue, <<>>)
    ELSE IF BitAnd(sess.fieldsFound, fieldFrom) = 0 /\ EqualFold(name, HdrFrom)
    THEN Return([sess EXCEPT !.fieldsFound = BitOr(@, fieldFrom),
                             !.headerFrom = value.text],
                RespContinue, <<>>)
    ELSE IF BitAnd(sess.fieldsFound, fieldAuthres) = 0 /\ EqualFold(name, HdrAuthres)
    THEN LET p == Parse(value) IN
         IF p.err
         THEN Return(sess, RespContinue, <<ParseFailLine(m.i, name, value)>>)
         ELSE IF ~EqualFold(p.id, conf.AuthservID)
         THEN Return(sess, RespContinue, <<>>)
         ELSE Return(ApplyResults(sess, p.results), RespContinue, <<>>)
    ELSE Return(sess, RespContinue, <<>>)

\* Mutant: the early return is taken as soon as either field is captured.
Header_EagerExit(sess, name, value, m) ==
    IF sess.fieldsFound # 0
    THEN Return(sess, RespContinue, <<>>)
    ELSE IF BitAnd(sess.fieldsFound, fieldFrom) = 0 /\ EqualFold(name, HdrFrom)
    THEN Return([sess EXCEPT !.fieldsFound = BitOr(@, fieldFrom),
                             !.headerFrom = value.text],
                RespContinue, <<>>)
    ELSE IF BitAnd(sess.fieldsFound, fieldAuthres) = 0 /\ EqualFold(name, HdrAuthres)
    THEN LET p == Parse(value) IN
         IF p.err
         THEN Return(sess, RespContinue, <<ParseFailLine(m.i, name, value)>>)
         ELSE IF ~EqualFold(p.id, conf.AuthservID)
         THEN Return(sess, RespContinue, <<>>)
         ELSE Return(ApplyResults(sess, p.results), RespContinue, <<>>)
    ELSE Return(sess, RespContinue, <<>>)

\* Mutant: a From field is stored even when one has already been captured.
Header_NoFromGuard(sess, name, value, m) ==
    IF sess.fieldsFound = fieldAll
    THEN Return(sess, RespContinue, <<>>)
    ELSE IF EqualFold(name, HdrFrom)
    THEN Return([sess EXCEPT !.fieldsFound = BitOr(@, fieldFrom),
                             !.headerFrom = value.text],
                RespContinue, <<>>)
    ELSE IF BitAnd(sess.fieldsFound, fieldAuthres) = 0 /\ EqualFold(name, HdrAuthres)
    THEN LET p == Parse(value) IN
         IF p.err
         THEN Return(sess, RespContinue, <<ParseFailLine(m.i, name, value)>>)
         ELSE IF ~EqualFold(p.id, conf.AuthservID)
         THEN Return(sess, RespContinue, <<>>)
         ELSE Return(ApplyResults(sess, p.results), RespContinue, <<>>)
    ELSE Return(sess, RespContinue, <<>>)

\* Mutant: the field names are compared letter for letter.
Header_ExactName(sess, name, value, m) ==
    IF sess.fieldsFound = fieldAll
    THEN Return(sess, RespContinue, <<>>)
    ELSE IF BitAnd(sess.fieldsFound, fieldFrom) = 0 /\ name = HdrFrom
    THEN Return([sess EXCEPT !.fieldsFound = BitOr(@, fieldFrom),
                             !.headerFrom = value.text],
                RespContinue, <<>>)
    ELSE IF BitAnd(sess.fieldsFound, fieldAuthres) = 0 /\ name = HdrAuthres
    THEN LET p == Parse(value) IN
         IF p.err
         THEN Return(sess, RespContinue, <<ParseFailLine(m.i, name, value)>>)
         ELSE IF ~EqualFold(p.id, conf.AuthservID)
         THEN Return(sess, RespContinue, <<>>)
         ELSE Return(ApplyResults(sess, p.results), RespContinue, <<>>)
    ELSE Return(sess, RespContinue, <<>>)

\* Mutant: the authserv-id is compared letter for letter.
Header_ExactID(sess, name, value, m) ==
    IF sess.fieldsFound = fieldAll
    THEN Return(sess, RespContinue, <<>>)
    ELSE IF BitAnd(sess.fieldsFound, fieldFrom) = 0 /\ EqualFold(name, HdrFrom)
    THEN Return([sess EXCEPT !.fieldsFound = BitOr(@, fieldFrom),
                             !.headerFrom = value.text],
                RespContinue, <<>>)
    ELSE IF BitAnd(sess.fieldsFound, fieldAuthres) = 0 /\ EqualFold(name, HdrAuthres)
    THEN LET p == Parse(value) IN
         IF p.err
         THEN Return(sess, RespContinue, <<ParseFailLine(m.i, name, value)>>)
         ELSE IF p.id # conf.AuthservID
         THEN Return(sess, RespContinue, <<>>)
         ELSE Return(ApplyResults(sess, p.results), RespContinue, <<>>)
    ELSE Return(sess, RespContinue, <<>>)

\* Mutant: the authserv-id is not compared at all.
Header_NoIDCheck(sess, name, value, m) ==
    IF sess.fieldsFound = fieldAll
    THEN Return(sess, RespContinue, <<>>)
    ELSE IF BitAnd(sess.fieldsFound, fieldFrom) = 0 /\ EqualFold(name, HdrFrom)
    THEN Return([sess EXCEPT !.fieldsFound = BitOr(@, fieldFrom),
                             !.headerFrom = value.text],
                RespContinue, <<>>)
    ELSE IF BitAnd(sess.fieldsFound, fieldAuthres) = 0 /\ EqualFold(name, HdrAuthres)
    THEN LET p == Parse(value) IN
         IF p.err
         THEN Return(sess, RespContinue, <<ParseFailLine(m.i, name, value)>>)
         ELSE IF FALSE
         THEN Return(sess, RespContinue, <<>>)
         ELSE Return(ApplyResults(sess, p.results), RespContinue, <<>>)
    ELSE Return(sess, RespContinue, <<>>)

\* Mutant: an Authentication-Results value is parsed, and a failure logged,
\* before the Session is asked whether the field is still wanted.
Header_ParseBeforeGuard(sess, name, value, m) ==
    IF EqualFold(name, HdrAuthres) /\ Parse(value).err
    THEN Return(sess, RespContinue, <<ParseFailLine(m.i, name, value)>>)
    ELSE IF sess.fieldsFound = fieldAll
    THEN Return(sess, RespContinue, <<>>)
    ELSE IF BitAnd(sess.fieldsFound, fieldFrom) = 0 /\ EqualFold(name, HdrFrom)
    THEN Return([sess EXCEPT !.fieldsFound = BitOr(@, fieldFrom),
                             !.headerFrom = value.text],
                RespContinue, <<>>)
    ELSE IF BitAnd(sess.fieldsFound, fieldAuthres) = 0 /\ EqualFold(name, HdrAuthres)
    THEN LET p == Parse(value) IN
         IF ~EqualFold(p.id, conf.AuthservID)
         THEN Return(sess, RespContinue, <<>>)
         ELSE Return(ApplyResults(sess, p.results), RespContinue, <<>>)
    ELSE Return(sess, RespContinue, <<>>)

HeaderCall(sess, name, value, m) ==
    IF sess.fieldsFound = fieldAll
    THEN Return(sess, RespContinue, <<>>)
    ELSE IF BitAnd(sess.fieldsFound, fieldFrom) = 0 /\ EqualFold(name, HdrFrom)
    THEN Return([sess EXCEPT !.fieldsFound = BitOr(@, fieldFrom),
                             !.headerFrom = value.text],
                RespContinue, <<>>)
    ELSE IF BitAnd(sess.fieldsFound, fieldAuthres) = 0 /\ EqualFold(name, HdrAuthres)
    THEN LET p == Parse(value) IN
         IF p.err
         THEN Return(sess, RespContinue, <<ParseFailLine(m.i, name, value)>>)
         ELSE IF ~EqualFold(p.id, conf.AuthservID)
         THEN Return(sess, RespContinue, <<>>)
         ELSE Return(ApplyResults(sess, p.results), RespContinue, <<>>)
    ELSE Return(sess, RespContinue, <<>>)

\* Mutant: no address is written when there is a From value.
Headers_DropAddr(sess, m) ==
    IF sess.shouldReject
    THEN Return(sess, newRejectResponse(sess.dmarcResult.From),
                <<AuditLine(m.i, "reject", sess.dmarcResult.Value,
                            sess.dmarcResult.From, EmptyStr)>>)
    ELSE Return(sess, RespAccept,
                <<AuditLine(m.i, "accept", "unknown", Unknown, EmptyStr)>>)

\* Mutant: the Session is emptied once the decision is taken.
Headers_Consume(sess, m) ==
    IF sess.shouldReject
    THEN Return(ZeroSession, newRejectResponse(sess.dmarcResult.From),
                <<AuditLine(m.i, "reject", sess.dmarcResult.Value,
                            sess.dmarcResult.From, sess.headerFrom)>>)
    ELSE Return(ZeroSession, RespAccept,
                <<AuditLine(m.i, "accept", "unknown", Unknown, sess.headerFrom)>>)

\* Mutant: the audit line names the domain lower-cased, as the table holds it.
Headers_LogLowerDomain(sess, m) ==
    IF sess.dmarcResult = NilResult
    THEN Return(sess, RespAccept,
                <<AuditLine(m.i, "accept", "unknown", Unknown, sess.headerFrom)>>)
    ELSE LET r == sess.dmarcResult IN
         IF sess.shouldReject
         THEN Return(sess, newRejectResponse(r.From),
                     <<AuditLine(m.i, "reject", r.Value, ToLower(r.From), sess.headerFrom)>>)
         ELSE Return(sess, RespAccept,
                     <<AuditLine(m.i, "accept", r.Value, ToLower(r.From), sess.headerFrom)>>)

HeadersCall(sess, m) ==
    IF sess.dmarcResult = NilResult
    THEN Return(sess, RespAccept,
                <<AuditLine(m.i, "accept", "unknown", Unknown, sess.headerFrom)>>)
    ELSE LET r == sess.dmarcResult IN
         IF sess.shouldReject
         THEN Return(sess, newRejectResponse(r.From),
                     <<AuditLine(m.i, "reject", r.Value, r.From, sess.headerFrom)>>)
         ELSE Return(sess, RespAccept,
                     <<AuditLine(m.i, "accept", r.Value, r.From, sess.headerFrom)>>)

(***************************************************************************)
(* Inputs: what the MTA may send.                                          *)
(***************************************************************************)
AuthMacros == {"", "nicolas"}       \* {auth_authen}: empty unless SASL authenticated
QueueIDs   == {"4F1A2"}             \* the queue id macro i

FromPlain   == Text(<<"coucou@gmail.com">>)
FromEncoded == Text(<<"=?UTF-8?Q?Hello_World?=", " <libre@coucou.fr>">>)
FromBroken  == Text(<<"=?UTF-42?Q?Broken?=", " <coucou@broken.com>">>)

Dmarc(value, from) == Entry("dmarc", value, from)

\* The header fields a message may carry.  A From or Subject field carries
\* text, an Authentication-Results field a value in wire form.
HeaderEvents == {
    [name |-> HdrFrom,         value |-> FromPlain],
    [name |-> HdrFromUpper,    value |-> FromEncoded],
    [name |-> HdrFrom,         value |-> FromBroken],
    [name |-> HdrSubject,      value |-> Text(<<"Hello world!">>)],
    [name |-> HdrAuthres,      value |-> ArValue(mail_club1_fr, <<Dmarc("fail", gmail_com)>>)],
    [name |-> HdrAuthres,      value |-> ArValue(mail_club1_fr, <<Dmarc("pass", gmail_com)>>)],
    [name |-> HdrAuthresLower, value |-> ArValue(MAIL_club1_fr, <<Dmarc("none", GMAIL_com)>>)],
    [name |-> HdrAuthres,      value |-> ArValue(mail_club1_fr, <<Dmarc("temperror", HotMail_fr)>>)],
    [name |-> HdrAuthres,      value |-> ArValue(mail_club1_fr, <<Dmarc("fail", example_com)>>)],
    [name |-> HdrAuthres,      value |-> ArValue(mail_club1_fr, <<Dmarc("pass", example_com)>>)],
    [name |-> HdrAuthres,      value |-> ArValue(mail_club1_fr, <<Dmarc("fail", gmail_com),
                                                                  Dmarc("pass", gmail_com)>>)],
    [name |-> HdrAuthres,      value |-> ArValue(mail_club1_fr, <<Dmarc("pass", gmail_com),
                                                                  Entry("spf", "pass", EmptyStr),
                                                                  Dmarc("fail", gmail_com)>>)],
    [name |-> HdrAuthres,      value |-> ArValue(example_com,   <<Dmarc("fail", gmail_com)>>)],
    [name |-> HdrAuthres,      value |-> ArValue(mail_club1_fr, <<Dmarc(NoValue, gmail_com)>>)],
    [name |-> HdrAuthres,      value |-> ArValue(mail_club1_fr,
                                                 <<Entry("spf", "pass", EmptyStr)>>)] }

(***************************************************************************)
(* The state machine: one milter connection and its Session.               *)
(***************************************************************************)
NoMacros == [i |-> "", auth_authen |-> ""]

Init ==
    /\ conf \in { LoadConf(f) : f \in ConfFiles }
    /\ rejectDomains = BuildRejectDomains(conf.RejectDomains)
    /\ s = ZeroSession
    /\ macros = NoMacros
    /\ phase = "idle"
    /\ hist = <<>>
    /\ start = ZeroSession
    /\ pre = ZeroSession
    /\ last = "NewMilter"
    /\ resp = RespContinue
    /\ err = FALSE
    /\ logged = <<>>

\* A new connection: Server.NewMilter builds a fresh &Session{}.
NewMilter ==
    /\ phase = "idle"
    /\ last # "NewMilter"
    /\ s' = ZeroSession
    /\ macros' = NoMacros
    /\ hist' = <<>>
    /\ start' = ZeroSession
    /\ pre' = ZeroSession
    /\ last' = "NewMilter"
    /\ resp' = RespContinue
    /\ err' = FALSE
    /\ logged' = <<>>
    /\ UNCHANGED <<conf, rejectDomains, phase>>

\* MAIL FROM of the next message on the connection; Accept ends the
\* transaction for this filter, Continue lets the headers follow.
MailFrom(auth, queueID) ==
    /\ phase = "idle"
    /\ LET m == [i |-> queueID, auth_authen |-> auth]
           r == MailFromCall(s, m)
       IN /\ macros' = m
          /\ s' = r.s
          /\ resp' = r.resp
          /\ err' = r.err
          /\ logged' = r.logged
          /\ phase' = IF r.resp = RespContinue THEN "headers" ELSE "idle"
    /\ hist' = <<>>
    /\ start' = s
    /\ pre' = s
    /\ last' = "MailFrom"
    /\ UNCHANGED <<conf, rejectDomains>>

\* One header field of the message.
Header(ev) ==
    /\ phase = "headers"
    /\ Len(hist) < MaxHeaders
    /\ LET r == HeaderCall(s, ev.name, ev.value, macros)
       IN /\ s' = r.s
          /\ resp' = r.resp
          /\ err' = r.err
          /\ logged' = r.logged
    /\ hist' = Append(hist, ev)
    /\ pre' = s
    /\ last' = "Header"
    /\ UNCHANGED <<conf, rejectDomains, macros, phase, start>>

\* End of headers: the decision.
Headers ==
    /\ phase = "headers"
    /\ LET r == HeadersCall(s, macros)
       IN /\ s' = r.s
          /\ resp' = r.resp
          /\ err' = r.err
          /\ logged' = r.logged
    /\ phase' = "idle"
    /\ pre' = s
    /\ last' = "Headers"
    /\ UNCHANGED <<conf, rejectDomains, macros, hist, start>>

\* Session.Headers invoked once more, right after it has returned; the
\* header events are not looked at again.
HeadersAgain ==
    /\ phase = "idle"
    /\ last = "Headers"
    /\ LET r == HeadersCall(s, macros)
       IN /\ s' = r.s
          /\ resp' = r.resp
          /\ err' = r.err
          /\ logged' = r.logged
    /\ hist' = <<>>
    /\ pre' = s
    /\ last' = "HeadersAgain"
    /\ UNCHANGED <<conf, rejectDomains, macros, phase, start>>

\* The MTA aborts the message; NoOpMilter does nothing with the Session.
Abort ==
    /\ phase = "headers"
    /\ phase' = "idle"
    /\ pre' = s
    /\ last' = "Abort"
    /\ resp' = RespContinue
    /\ err' = FALSE
    /\ logged' = <<>>
    /\ hist' = <<>>
    /\ UNCHANGED <<conf, rejectDomains, s, macros, start>>

Next ==
    \/ NewMilter
    \/ \E auth \in AuthMacros, queueID \in QueueIDs : MailFrom(auth, queueID)
    \/ \E ev \in HeaderEvents : Header(ev)
    \/ Headers
    \/ HeadersAgain
    \/ Abort

Spec == Init /\ [][Next]_vars

(***************************************************************************)
(* Vocabulary of the properties.                                           *)
(***************************************************************************)
\* The last callback was the end of headers: resp is the decision, logged
\* the audit line, and s the Session the decision was taken on.
AtEOH == last = "Headers"

Captured == s.dmarcResult # NilResult

IsReject(r) == r.code = "ActReplyCode"

\* The rejection text for a domain, written out: "550 5.7.1 " and the
\* configured template around the domain.
RejectTextFor(domain) ==
    <<"550 5.7.1 ", conf.RejectFmt.before>> \o domain \o <<conf.RejectFmt.after>>

\* What stands at the substitution point of a rejection text.
SubstitutedDomain(r) == SubSeq(r.text, 3, Len(r.text) - 1)

\* The verdict's domain is one of the configured domains, up to letter case.
Configured(domain) ==
    \E i \in DOMAIN conf.RejectDomains : EqualFold(conf.RejectDomains[i], domain)

(***************************************************************************)
(* C1: for every configured reject domain, in whatever casing it was       *)
(* configured, a captured verdict that is not a pass and whose domain      *)
(* equals it case-insensitively is rejected at end of headers, and the     *)
(* rejection message carries the verdict's domain exactly as received.     *)
(***************************************************************************)
C1_RejectConfiguredDomain ==
    (AtEOH /\ Captured /\ s.dmarcResult.Value # ResultPass
           /\ Configured(s.dmarcResult.From))
    => /\ IsReject(resp)
       /\ resp.text = RejectTextFor(s.dmarcResult.From)
       /\ SubstitutedDomain(resp) = s.dmarcResult.From

\* A verdict for GMAIL.com is rejected under a table configured as Gmail.COM.
C1_Witness ==
    /\ AtEOH
    /\ s.dmarcResult.From = GMAIL_com
    /\ s.dmarcResult.Value = "none"
    /\ \E i \in DOMAIN conf.RejectDomains : conf.RejectDomains[i] = Gmail_COM
    /\ IsReject(resp)
    /\ SubstitutedDomain(resp) = GMAIL_com

(***************************************************************************)
(* C2: a captured verdict of any outcome whose lower-cased domain is not   *)
(* in the table of reject domains is accepted at end of headers.           *)
(***************************************************************************)
C2_AcceptUnlistedDomain ==
    (AtEOH /\ Captured /\ ToLower(s.dmarcResult.From) \notin rejectDomains)
    => resp = RespAccept

\* A fail for example.com, which is not listed, has been accepted.
C2_Witness ==
    /\ AtEOH
    /\ s.dmarcResult.Value = "fail"
    /\ s.dmarcResult.From = example_com
    /\ example_com \notin rejectDomains
    /\ resp = RespAccept

(***************************************************************************)
(* C3: for a domain in the table, a pass is accepted and every other       *)
(* outcome gets one and the same rejection, which depends on the domain    *)
(* only.                                                                   *)
(***************************************************************************)
C3_OnlyPassIsSpared ==
    (AtEOH /\ Captured /\ ToLower(s.dmarcResult.From) \in rejectDomains)
    => resp = IF s.dmarcResult.Value = ResultPass
              THEN RespAccept
              ELSE [code |-> "ActReplyCode", text |-> RejectTextFor(s.dmarcResult.From)]

\* An outcome that is neither pass, fail nor none has been rejected.
C3_Witness ==
    /\ AtEOH
    /\ s.dmarcResult.Value = "temperror"
    /\ ToLower(s.dmarcResult.From) \in rejectDomains
    /\ IsReject(resp)

(***************************************************************************)
(* Classes of header events, and the Session a sequence of header events   *)
(* leads to.                                                               *)
(***************************************************************************)
IsAuthres(ev) == EqualFold(ev.name, HdrAuthres)

\* An Authentication-Results value that does not parse.
Malformed(ev) == IsAuthres(ev) /\ Parse(ev.value).err

\* One that parses and names another authserv-id.
Foreign(ev) ==
    /\ IsAuthres(ev)
    /\ LET p == Parse(ev.value)
       IN ~p.err /\ ~EqualFold(p.id, conf.AuthservID)

\* One that parses and names the local authserv-id.
Matching(ev) ==
    /\ IsAuthres(ev)
    /\ LET p == Parse(ev.value)
       IN ~p.err /\ EqualFold(p.id, conf.AuthservID)

DmarcIndexes(ev) ==
    LET results == Parse(ev.value).results
    IN { i \in DOMAIN results : results[i].kind = "DMARCResult" }

\* A matching one that carries a DMARC entry.
Qualifying(ev) == Matching(ev) /\ DmarcIndexes(ev) # {}

\* Its last DMARC entry.
LastDmarc(ev) ==
    LET results == Parse(ev.value).results
        indexes == DmarcIndexes(ev)
    IN results[CHOOSE i \in indexes : \A j \in indexes : j <= i]

LastEvent == hist[Len(hist)]

Earlier == 1..(Len(hist) - 1)

AuthresCaptured(sess) == BitAnd(sess.fieldsFound, fieldAuthres) # 0

RECURSIVE Replay(_, _, _)
\* The Session after Header has been called for every event in turn.
Replay(sess, events, m) ==
    IF events = <<>> THEN sess
    ELSE Replay(HeaderCall(sess, Head(events).name, Head(events).value, m).s,
                Tail(events), m)

(***************************************************************************)
(* C4: a transaction in which no Authentication-Results header event       *)
(* occurs ends with accept at end of headers, and its audit line says      *)
(* dmarc=unknown from=unknown.                                             *)
(***************************************************************************)
C4_NoAuthresAccepts ==
    (AtEOH /\ \A i \in DOMAIN hist : ~IsAuthres(hist[i]))
    => /\ resp = RespAccept
       /\ Len(logged) = 1
       /\ logged[1].action = "accept"
       /\ logged[1].dmarc = "unknown"
       /\ logged[1].from = Unknown

(***************************************************************************)
(* C5 as stated: once an Authentication-Results occurrence whose           *)
(* identifier matches has been delivered in the transaction, a later       *)
(* matching occurrence changes neither the verdict nor the cached decision.*)
(***************************************************************************)
C5_FirstMatchingOnly ==
    (/\ last = "Header"
     /\ Matching(LastEvent)
     /\ \E i \in Earlier : Matching(hist[i]))
    => /\ s.dmarcResult = pre.dmarcResult
       /\ s.shouldReject = pre.shouldReject

(***************************************************************************)
(* C5 amended: once a matching occurrence that carries a DMARC entry has   *)
(* been delivered in the transaction, no later header event changes the    *)
(* verdict or the cached decision, and the decision at end of headers is   *)
(* the cached one.                                                         *)
(***************************************************************************)
C5_FirstVerdictOnly ==
    /\ (last = "Header" /\ \E i \in Earlier : Qualifying(hist[i]))
       => /\ s.dmarcResult = pre.dmarcResult
          /\ s.shouldReject = pre.shouldReject
    /\ (AtEOH /\ \E i \in DOMAIN hist : Qualifying(hist[i]))
       => /\ s.dmarcResult = pre.dmarcResult
          /\ s.shouldReject = pre.shouldReject
          /\ IsReject(resp) = pre.shouldReject

\* dmarc=fail, then dmarc=pass, for a listed domain: the fail verdict stays.
C5_Witness ==
    /\ last = "Header"
    /\ Len(hist) = 2
    /\ Qualifying(hist[1]) /\ LastDmarc(hist[1]).Value = "fail"
    /\ Qualifying(hist[2]) /\ LastDmarc(hist[2]).Value = ResultPass
    /\ s.dmarcResult = LastDmarc(hist[1])
    /\ s.shouldReject

(***************************************************************************)
(* C6: an Authentication-Results header with a foreign identifier leaves   *)
(* the Session as it was; a transaction made of such headers only is       *)
(* accepted; and a later header with the local identifier is still         *)
(* evaluated.                                                              *)
(***************************************************************************)
C6_ForeignIsInert ==
    /\ (last = "Header" /\ Foreign(LastEvent)) => s = pre
    /\ (AtEOH /\ hist # <<>> /\ \A i \in DOMAIN hist : Foreign(hist[i]))
       => resp = RespAccept
    /\ (/\ last = "Header"
        /\ Len(hist) >= 2
        /\ Qualifying(LastEvent)
        /\ \A i \in Earlier : Foreign(hist[i]))
       => /\ AuthresCaptured(s)
          /\ s.dmarcResult = LastDmarc(LastEvent)

(***************************************************************************)
(* C7: an Authentication-Results header that does not parse is answered    *)
(* continue with a nil error and one diagnostic line, and leaves the       *)
(* Session as it was; a transaction made of such headers only is accepted; *)
(* and a later well-formed matching header is still evaluated.             *)
(***************************************************************************)
C7_MalformedIsRecovered ==
    /\ (last = "Header" /\ Malformed(LastEvent) /\ ~AuthresCaptured(pre))
       => /\ resp = RespContinue
          /\ err = FALSE
          /\ Len(logged) = 1
          /\ logged[1].line = "failed to parse header"
          /\ s = pre
    /\ (AtEOH /\ hist # <<>> /\ \A i \in DOMAIN hist : Malformed(hist[i]))
       => resp = RespAccept
    /\ (/\ last = "Header"
        /\ Len(hist) >= 2
        /\ Qualifying(LastEvent)
        /\ \A i \in Earlier : Malformed(hist[i]))
       => /\ AuthresCaptured(s)
          /\ s.dmarcResult = LastDmarc(LastEvent)

(***************************************************************************)
(* C8: a transaction whose MailFrom carries a non-empty {auth_authen}      *)
(* macro is answered accept right there, nothing is logged, the Session is *)
(* untouched, and no header of that transaction is ever evaluated.         *)
(***************************************************************************)
C8_AuthenticatedAccepted ==
    macros.auth_authen # ""
    => /\ last = "MailFrom"
       /\ resp = RespAccept
       /\ logged = <<>>
       /\ hist = <<>>
       /\ phase = "idle"
       /\ s = pre

\* An authenticated client on a connection whose Session holds a rejecting verdict.
C8_Witness ==
    /\ last = "MailFrom"
    /\ macros.auth_authen = "nicolas"
    /\ s.shouldReject
    /\ resp = RespAccept

(***************************************************************************)
(* C9: no state crosses transactions: a transaction starts with an empty   *)
(* Session, so the Session, the decision and the audit line are those of a *)
(* fresh Session fed the transaction's own header events.                  *)
(***************************************************************************)
C9_NoCrossTransactionState ==
    last \in {"MailFrom", "Header", "Headers"}
    => /\ start = ZeroSession
       /\ s = Replay(ZeroSession, hist, macros)
       /\ AtEOH => /\ resp = HeadersCall(Replay(ZeroSession, hist, macros), macros).resp
                   /\ logged = HeadersCall(Replay(ZeroSession, hist, macros), macros).logged

(***************************************************************************)
(* The From-address decoder: decode(raw) gives the display form, every     *)
(* MIME encoded-word replaced by the text it encodes; when a word cannot   *)
(* be decoded the raw value comes back unchanged.                          *)
(***************************************************************************)
DecodedWord == [w \in {"=?UTF-8?Q?Hello_World?="} |-> "Hello World"]
BrokenWords == {"=?UTF-42?Q?Broken?="}

DecodeFrom(str) ==
    IF \E i \in DOMAIN str : str[i] \in BrokenWords
    THEN str
    ELSE [i \in DOMAIN str |->
            IF str[i] \in DOMAIN DecodedWord THEN DecodedWord[str[i]] ELSE str[i]]

(***************************************************************************)
(* C10: the addr field of the audit line written at end of headers is the  *)
(* decoded display form of the captured From value, empty if there is none.*)
(***************************************************************************)
C10_AddrIsDecodedFrom ==
    AtEOH => /\ Len(logged) = 1
             /\ logged[1].addr = Quote(DecodeFrom(s.headerFrom))

(***************************************************************************)
(* More vocabulary: the end-of-headers callback has just returned, for the *)
(* first or the second time; the From header events of the transaction.    *)
(***************************************************************************)
EOHReturned == last \in {"Headers", "HeadersAgain"}

IsFrom(ev) == EqualFold(ev.name, HdrFrom)

FromIndexes == { i \in DOMAIN hist : IsFrom(hist[i]) }

\* The value of the first From header event of the transaction.
FirstFrom == hist[CHOOSE i \in FromIndexes : \A j \in FromIndexes : i <= j].value.text

\* The cached decision the rule gives for a verdict, written out.
RuleRejects(result) ==
    /\ result.Value # ResultPass
    /\ ToLower(result.From) \in rejectDomains

(***************************************************************************)
(* C11: when the captured From value carries an encoded word that cannot   *)
(* be decoded, end of headers does not fail: it returns its usual accept   *)
(* or reject with a nil error, and the addr field of its one audit line    *)
(* holds the raw From value, unchanged, between the quotes.                *)
(***************************************************************************)
C11_UndecodableFromKeptRaw ==
    (AtEOH /\ s.headerFrom = FromBroken.text)
    => /\ err = FALSE
       /\ resp.code \in {"ActAccept", "ActReplyCode"}
       /\ IsReject(resp) = s.shouldReject
       /\ Len(logged) = 1
       /\ logged[1].addr = <<"\"">> \o FromBroken.text \o <<"\"">>

\* A rejection whose audit line carries the undecodable From value.
C11_Witness ==
    /\ AtEOH
    /\ s.headerFrom = FromBroken.text
    /\ IsReject(resp)
    /\ logged[1].addr = <<"\"", "=?UTF-42?Q?Broken?=", " <coucou@broken.com>", "\"">>

(***************************************************************************)
(* C12: one From value per transaction, the first: whenever the            *)
(* transaction has delivered a From header event, the stored From value is *)
(* the value of the first of them, the addr of the audit line is that      *)
(* value, and a later From header event leaves the stored value alone.     *)
(***************************************************************************)
C12_FirstFromWins ==
    /\ (last \in {"Header", "Headers"} /\ FromIndexes # {})
       => s.headerFrom = FirstFrom
    /\ (AtEOH /\ FromIndexes # {})
       => /\ Len(logged) = 1
          /\ logged[1].addr = Quote(FirstFrom)
    /\ (last = "Header" /\ IsFrom(LastEvent) /\ \E i \in Earlier : IsFrom(hist[i]))
       => s.headerFrom = pre.headerFrom

C14_OneAuditLinePrefixed ==
    /\ EOHReturned => /\ Len(logged) = 1
                      /\ logged[1].line = "audit"
    /\ last = "Header" => /\ Len(logged) <= 1
                          /\ \A i \in DOMAIN logged : logged[i].line = "failed to parse header"
    /\ \A i \in DOMAIN logged : logged[i].prefix = macros.i

\* The audit line of a message queued as 4F1A2, after a diagnostic for it.
C14_Witness ==
    /\ AtEOH
    /\ macros.i = "4F1A2"
    /\ \E i \in DOMAIN hist : Malformed(hist[i])
    /\ Len(logged) = 1
    /\ logged[1].prefix = "4F1A2"

(***************************************************************************)
(* C15: the end-of-headers callback is idempotent: it leaves the Session   *)
(* as it found it, so that called again right away it gives the same       *)
(* decision and leaves the Session alone again; the one thing it repeats   *)
(* is its audit line.                                                      *)
(***************************************************************************)
C15_HeadersIdempotent ==
    /\ AtEOH => /\ s = pre
                /\ HeadersCall(s, macros).resp = resp
                /\ HeadersCall(s, macros).s = s
    /\ last = "HeadersAgain" => /\ s = pre
                                /\ err = FALSE
                                /\ Len(logged) = 1
                                /\ logged[1].line = "audit"
                                /\ IsReject(resp) = s.shouldReject

\* The second call in a row has rejected again, the Session untouched.
C15_Witness ==
    /\ last = "HeadersAgain"
    /\ IsReject(resp)
    /\ s = pre
    /\ s.shouldReject
    /\ Len(logged) = 1

(***************************************************************************)
(* C16: every header event and every end of headers returns a nil error    *)
(* and one of the three verdicts continue, accept, reject.                 *)
(***************************************************************************)
C16_CallbacksNeverFail ==
    last \in {"Header", "Headers", "HeadersAgain"}
    => /\ err = FALSE
       /\ resp.code \in {"ActContinue", "ActAccept", "ActReplyCode"}

\* An Authentication-Results value that does not parse has been answered
\* continue, with a nil error and a diagnostic.
C16_Witness ==
    /\ last = "Header"
    /\ Malformed(LastEvent)
    /\ logged # <<>>
    /\ err = FALSE
    /\ resp = RespContinue

(***************************************************************************)
(* C17: every rejection is the reply code 550 and the enhanced status      *)
(* 5.7.1 followed by the configured template with the verdict's domain at  *)
(* its substitution point; under the default template the text is          *)
(* "rejected because of DMARC failure for <domain> overriding policy".     *)
(***************************************************************************)
C17_RejectionForm ==
    IsReject(resp)
    => /\ EOHReturned
       /\ Len(resp.text) >= 3
       /\ resp.text[1] = "550 5.7.1 "
       /\ resp.text[2] = conf.RejectFmt.before
       /\ resp.text[Len(resp.text)] = conf.RejectFmt.after
       /\ SubstitutedDomain(resp) = s.dmarcResult.From
       /\ conf.RejectFmt = DefaultRejectFmt
          => resp.text = <<"550 5.7.1 ", "rejected because of DMARC failure for ">>
                         \o s.dmarcResult.From \o <<" overriding policy">>

\* A rejection for HotMail.fr under the default template.
C17_Witness ==
    /\ EOHReturned
    /\ IsReject(resp)
    /\ conf.RejectFmt = DefaultRejectFmt
    /\ resp.text = <<"550 5.7.1 ", "rejected because of DMARC failure for ">>
                   \o HotMail_fr \o <<" overriding policy">>

(***************************************************************************)
(* C18: when the configuration file leaves AuthservID empty, the           *)
(* identifier headers are matched against is the host name: an             *)
(* Authentication-Results header naming the host, evaluated by a Session   *)
(* that holds no verdict yet, has its DMARC verdict captured, and          *)
(* dmarc=fail for a listed domain then makes the cached decision a         *)
(* rejection.                                                              *)
(***************************************************************************)
FromEmptyAuthservID ==
    \E f \in ConfFiles : f.AuthservID = EmptyStr /\ conf = LoadConf(f)

NamesHost(ev) ==
    /\ IsAuthres(ev)
    /\ ~Parse(ev.value).err
    /\ EqualFold(Parse(ev.value).id, Hostname)

C18_HostnameIsDefaultID ==
    FromEmptyAuthservID
    => /\ conf.AuthservID = Hostname
       /\ (/\ last = "Header"
           /\ NamesHost(LastEvent)
           /\ DmarcIndexes(LastEvent) # {}
           /\ ~AuthresCaptured(pre))
          => /\ s.dmarcResult = LastDmarc(LastEvent)
             /\ s.shouldReject = RuleRejects(LastDmarc(LastEvent))
       /\ (AtEOH /\ Captured /\ s.dmarcResult.Value = "fail"
                 /\ Configured(s.dmarcResult.From))
          => IsReject(resp)

\* TestConfigNoAuthservID: the header names the host, says dmarc=fail for
\* gmail.com, and the message is rejected.
C18_Witness ==
    /\ AtEOH
    /\ FromEmptyAuthservID
    /\ start = ZeroSession
    /\ Len(hist) = 1
    /\ NamesHost(hist[1])
    /\ LastDmarc(hist[1]).Value = "fail"
    /\ LastDmarc(hist[1]).From = gmail_com
    /\ IsReject(resp)

(***************************************************************************)
(* C19: when the occurrence that is captured carries several DMARC         *)
(* entries, the verdict and the cached decision are those of its last      *)
(* DMARC entry: fail then pass for a listed domain accepts, pass then fail *)
(* rejects.                                                                *)
(***************************************************************************)
SeveralDmarc(ev) == Qualifying(ev) /\ Cardinality(DmarcIndexes(ev)) >= 2

C19_LastDmarcEntryWins ==
    /\ (last = "Header" /\ ~AuthresCaptured(pre) /\ SeveralDmarc(LastEvent))
       => /\ s.dmarcResult = LastDmarc(LastEvent)
          /\ s.shouldReject = RuleRejects(LastDmarc(LastEvent))
    /\ (/\ AtEOH
        /\ hist # <<>>
        /\ SeveralDmarc(LastEvent)
        /\ ~AuthresCaptured(Replay(start, SubSeq(hist, 1, Len(hist) - 1), macros)))
       => IsReject(resp) = RuleRejects(LastDmarc(LastEvent))

\* dmarc=pass then dmarc=fail for gmail.com in one header: rejected.
C19_Witness ==
    /\ AtEOH
    /\ Len(hist) = 1
    /\ SeveralDmarc(hist[1])
    /\ Parse(hist[1].value).results[1].Value = ResultPass
    /\ LastDmarc(hist[1]).Value = "fail"
    /\ s.dmarcResult = LastDmarc(hist[1])
    /\ IsReject(resp)

(***************************************************************************)
(* C20: an Authentication-Results header that parses and names the local   *)
(* identifier but carries no DMARC entry leaves the Session as it was; a   *)
(* transaction made of such headers only is accepted with dmarc=unknown;   *)
(* and a later matching header that carries a DMARC entry is still         *)
(* captured.                                                               *)
(***************************************************************************)
NoDmarc(ev) == Matching(ev) /\ DmarcIndexes(ev) = {}

C20_NoDmarcEntryIsNoOp ==
    /\ (last = "Header" /\ NoDmarc(LastEvent))
       => /\ s = pre
          /\ AuthresCaptured(s) = AuthresCaptured(pre)
    /\ (AtEOH /\ hist # <<>> /\ \A i \in DOMAIN hist : NoDmarc(hist[i]))
       => /\ resp = RespAccept
          /\ Len(logged) = 1
          /\ logged[1].dmarc = "unknown"
    /\ (/\ last = "Header"
        /\ Len(hist) >= 2
        /\ Qualifying(LastEvent)
        /\ \A i \in Earlier : NoDmarc(hist[i]))
       => /\ AuthresCaptured(s)
          /\ s.dmarcResult = LastDmarc(LastEvent)

(***************************************************************************)
(* C21: in every state the cached decision is the rule applied to the      *)
(* captured verdict: false while there is none, and otherwise true exactly *)
(* when the outcome is not pass and the lower-cased domain is in the       *)
(* table; and no callback changes the cached decision without changing the *)
(* verdict.                                                                *)
(***************************************************************************)
C21_ShouldRejectIsCached ==
    /\ s.shouldReject = (Captured /\ RuleRejects(s.dmarcResult))
    /\ s.shouldReject # pre.shouldReject => s.dmarcResult # pre.dmarcResult

\* One header said fail, then pass, for a listed domain: the decision that
\* the first entry raised has been lowered with the verdict.
C21_Witness ==
    /\ last = "Header"
    /\ ~AuthresCaptured(pre)
    /\ SeveralDmarc(LastEvent)
    /\ RuleRejects(Parse(LastEvent.value).results[1])
    /\ s.dmarcResult.Value = ResultPass
    /\ ~s.shouldReject

(***************************************************************************)
(* Session.Header without its early return.                                *)
(***************************************************************************)
Header_NoFastExit(sess, name, value, m) ==
    IF BitAnd(sess.fieldsFound, fieldFrom) = 0 /\ EqualFold(name, HdrFrom)
    THEN Return([sess EXCEPT !.fieldsFound = BitOr(@, fieldFrom),
                             !.headerFrom = value.text],
                RespContinue, <<>>)
    ELSE IF BitAnd(sess.fieldsFound, fieldAuthres) = 0 /\ EqualFold(name, HdrAuthres)
    THEN LET p == Parse(value) IN
         IF p.err
         THEN Return(sess, RespContinue, <<ParseFailLine(m.i, name, value)>>)
         ELSE IF ~EqualFold(p.id, conf.AuthservID)
         THEN Return(sess, RespContinue, <<>>)
         ELSE Return(ApplyResults(sess, p.results), RespContinue, <<>>)
    ELSE Return(sess, RespContinue, <<>>)

RECURSIVE ReplayNoFastExit(_, _, _)
\* The Session after Header without the early return has been called for
\* every event in turn.
ReplayNoFastExit(sess, events, m) ==
    IF events = <<>> THEN sess
    ELSE ReplayNoFastExit(
           Header_NoFastExit(sess, Head(events).name, Head(events).value, m).s,
           Tail(events), m)

(***************************************************************************)
(* C22: the early return is an optimization only: every header event gets  *)
(* from Header without the early return the same Session, response, error  *)
(* and log lines, and the decision and the audit line at end of headers    *)
(* are those of a Session that was fed the transaction's header events     *)
(* without the early return.                                               *)
(***************************************************************************)
C22_FastExitIsOptimization ==
    /\ last = "Header"
       => LET r == Header_NoFastExit(pre, LastEvent.name, LastEvent.value, macros)
          IN /\ r.s = s
             /\ r.resp = resp
             /\ r.err = err
             /\ r.logged = logged
    /\ AtEOH
       => LET r == HeadersCall(ReplayNoFastExit(start, hist, macros), macros)
          IN /\ r.resp = resp
             /\ r.logged = logged

\* The early return has skipped an Authentication-Results header that
\* carries a verdict for the local identifier.
C22_Witness ==
    /\ last = "Header"
    /\ pre.fieldsFound = fieldAll
    /\ Qualifying(LastEvent)
    /\ LastDmarc(LastEvent) # pre.dmarcResult
    /\ s = pre

(***************************************************************************)
(* What of a Session the decision is taken from, and the Sessions that     *)
(* differ from a given one in what they hold of the From header only.      *)
(***************************************************************************)
DecisionPart(sess) == <<AuthresCaptured(sess), sess.dmarcResult, sess.shouldReject>>

FromValues == { ev.value.text : ev \in { e \in HeaderEvents : IsFrom(e) } }

FromVariants(sess) ==
    { [sess EXCEPT !.fieldsFound = BitAnd(@, fieldAuthres), !.headerFrom = EmptyStr] }
    \cup { [sess EXCEPT !.fieldsFound = BitOr(@, fieldFrom), !.headerFrom = v] :
             v \in FromValues }

QueueIDVariants == { [macros EXCEPT !.i = q] : q \in QueueIDs \cup {"67A75"} }

(***************************************************************************)
(* C23: the From values and the queue id have no part in the decision: a   *)
(* From header event changes nothing the decision is taken from; any other *)
(* header event has the same response and the same effect on it whatever   *)
(* From value the Session holds and whatever the queue id; and the         *)
(* decision at end of headers, with the action, dmarc and from fields of   *)
(* the audit line, is the same whatever From value is held and whatever    *)
(* the queue id.                                                           *)
(***************************************************************************)
C23_FromAndQueueIDAreInert ==
    /\ (last = "Header" /\ IsFrom(LastEvent))
       => /\ DecisionPart(s) = DecisionPart(pre)
          /\ resp = RespContinue
    /\ (last = "Header" /\ ~IsFrom(LastEvent))
       => \A v \in FromVariants(pre), m \in QueueIDVariants :
            LET r == HeaderCall(v, LastEvent.name, LastEvent.value, m)
            IN /\ DecisionPart(r.s) = DecisionPart(s)
               /\ r.resp = resp
    /\ AtEOH
       => \A v \in FromVariants(pre), m \in QueueIDVariants :
            LET r == HeadersCall(v, m)
            IN /\ r.resp = resp
               /\ r.logged[1].action = logged[1].action
               /\ r.logged[1].dmarc = logged[1].dmarc
               /\ r.logged[1].from = logged[1].from

\* A message whose From field came first and whose verdict came second has
\* been rejected.
C23_Witness ==
    /\ AtEOH
    /\ Len(hist) = 2
    /\ IsFrom(hist[1])
    /\ Qualifying(hist[2])
    /\ s.headerFrom = hist[1].value.text
    /\ s.dmarcResult = LastDmarc(hist[2])
    /\ IsReject(resp)

(***************************************************************************)
(* The capture states of a Session.                                        *)
(***************************************************************************)
FromCaptured(sess) == BitAnd(sess.fieldsFound, fieldFrom) # 0

FullCapture(sess) == sess.fieldsFound = fieldAll

(***************************************************************************)
(* C25: once both the verdict and the From value are captured, every       *)
(* further header event, whatever its name and value, leaves the whole     *)
(* Session as it was, is answered continue and writes no line.             *)
(***************************************************************************)
C25_FullCaptureIsFinal ==
    (last = "Header" /\ FullCapture(pre))
    => /\ s = pre
       /\ resp = RespContinue
       /\ err = FALSE
       /\ logged = <<>>

\* An Authentication-Results value that does not parse, after both fields
\* were captured: no diagnostic.
C25_Witness ==
    /\ last = "Header"
    /\ FullCapture(pre)
    /\ Malformed(LastEvent)
    /\ s = pre
    /\ logged = <<>>

(***************************************************************************)
(* C26: the captured fields only grow: no header event and no end of       *)
(* headers clears a mark, the marks move forward through none, one, both,  *)
(* and a captured verdict or From value is never replaced by that of a     *)
(* later header, up to the end of the transaction.                         *)
(***************************************************************************)
C26_CapturedOnlyGrows ==
    last \in {"Header", "Headers", "HeadersAgain"}
    => /\ s.fieldsFound \in 0..fieldAll
       /\ AuthresCaptured(pre)
          => /\ AuthresCaptured(s)
             /\ s.dmarcResult = pre.dmarcResult
             /\ s.shouldReject = pre.shouldReject
       /\ FromCaptured(pre)
          => /\ FromCaptured(s)
             /\ s.headerFrom = pre.headerFrom
       /\ AuthresCaptured(start)
          => /\ AuthresCaptured(s)
             /\ s.dmarcResult = start.dmarcResult
       /\ FromCaptured(start)
          => /\ FromCaptured(s)
             /\ s.headerFrom = start.headerFrom

\* A second From field with another value: the first value stays.
C26_Witness ==
    /\ last = "Header"
    /\ IsFrom(LastEvent)
    /\ FromCaptured(pre)
    /\ ~FullCapture(pre)
    /\ LastEvent.value.text # pre.headerFrom
    /\ s.headerFrom = pre.headerFrom

(***************************************************************************)
(* C27: header names are matched without regard to letter case: a header   *)
(* event named From or Authentication-Results in any casing gets the       *)
(* Session and the response the canonical spelling gets, a From field not  *)
(* yet captured stores its value, and a header event of any other name     *)
(* leaves the Session as it was.                                           *)
(***************************************************************************)
Canonical(name) ==
    IF EqualFold(name, HdrFrom) THEN HdrFrom
    ELSE IF EqualFold(name, HdrAuthres) THEN HdrAuthres
    ELSE name

C27_NamesFoldCase ==
    last = "Header"
    => /\ LET r == HeaderCall(pre, Canonical(LastEvent.name), LastEvent.value, macros)
          IN /\ r.s = s
             /\ r.resp = resp
             /\ r.err = err
             /\ Len(r.logged) = Len(logged)
       /\ (IsFrom(LastEvent) /\ ~FromCaptured(pre))
          => s.headerFrom = LastEvent.value.text
       /\ (~IsFrom(LastEvent) /\ ~IsAuthres(LastEvent))
          => s = pre

\* FROM and authentication-results, so spelled, have both been captured.
C27_Witness ==
    /\ last = "Header"
    /\ start = ZeroSession
    /\ Len(hist) = 2
    /\ hist[1].name = HdrFromUpper
    /\ hist[2].name = HdrAuthresLower
    /\ s.headerFrom = hist[1].value.text
    /\ s.dmarcResult = LastDmarc(hist[2])

(***************************************************************************)
(* C28: the authserv-id is compared with the local identifier without      *)
(* regard to letter case: a header that is evaluated and whose identifier  *)
(* equals the local one up to case gets what the same header with the      *)
(* identifier spelled as configured gets, and its DMARC verdict is         *)
(* captured with the decision the rule gives.                              *)
(***************************************************************************)
C28_IdentifierFoldsCase ==
    (last = "Header" /\ Matching(LastEvent) /\ ~AuthresCaptured(pre))
    => /\ LET r == HeaderCall(pre, LastEvent.name,
                              [LastEvent.value EXCEPT !.id = conf.AuthservID], macros)
          IN /\ r.s = s
             /\ r.resp = resp
             /\ r.logged = logged
       /\ DmarcIndexes(LastEvent) # {}
          => /\ s.dmarcResult = LastDmarc(LastEvent)
             /\ s.shouldReject = RuleRejects(LastDmarc(LastEvent))

\* MAIL.club1.fr for mail.club1.fr: the verdict is captured and enforced.
C28_Witness ==
    /\ AtEOH
    /\ start = ZeroSession
    /\ Len(hist) = 1
    /\ Matching(hist[1])
    /\ Parse(hist[1].value).id # conf.AuthservID
    /\ s.dmarcResult = LastDmarc(hist[1])
    /\ IsReject(resp)

(***************************************************************************)
(* C29: on a fresh Session a rejection at end of headers needs a header    *)
(* event of the transaction whose Authentication-Results value parses,     *)
(* names the local identifier and carries a DMARC entry that is not a pass *)
(* for a domain of the table; without one the message is accepted.         *)
(***************************************************************************)
Rejecting(ev) ==
    /\ Qualifying(ev)
    /\ \E j \in DmarcIndexes(ev) : RuleRejects(Parse(ev.value).results[j])

C29_RejectNeedsLocalVerdict ==
    (AtEOH /\ start = ZeroSession)
    => /\ IsReject(resp) => \E i \in DOMAIN hist : Rejecting(hist[i])
       /\ (\A i \in DOMAIN hist : ~Rejecting(hist[i])) => resp = RespAccept

\* A foreign header that says fail, then a local one that says fail: rejected.
C29_Witness ==
    /\ AtEOH
    /\ start = ZeroSession
    /\ Len(hist) = 2
    /\ Foreign(hist[1])
    /\ Rejecting(hist[2])
    /\ IsReject(resp)

(***************************************************************************)
(* C30: the audit line agrees with the response of the same end of         *)
(* headers: it says reject exactly when the response is the rejection and  *)
(* accept exactly when it is accept; with a verdict captured its dmarc and *)
(* from fields are the verdict's outcome and domain as received, the       *)
(* domain a rejection text names.                                          *)
(***************************************************************************)
C30_AuditAgreesWithResponse ==
    EOHReturned
    => /\ Len(logged) = 1
       /\ (logged[1].action = "reject") = IsReject(resp)
       /\ (logged[1].action = "accept") = (resp = RespAccept)
       /\ Captured => /\ logged[1].dmarc = s.dmarcResult.Value
                      /\ logged[1].from = s.dmarcResult.From
       /\ IsReject(resp) => SubstitutedDomain(resp) = logged[1].from

\* reject dmarc=none from=GMAIL.com, and GMAIL.com in the rejection text.
C30_Witness ==
    /\ AtEOH
    /\ IsReject(resp)
    /\ logged[1].action = "reject"
    /\ logged[1].dmarc = "none"
    /\ logged[1].from = GMAIL_com
    /\ SubstitutedDomain(resp) = GMAIL_com

(***************************************************************************)
(* Several connections at once.  The milter server runs one goroutine per  *)
(* connection and NewMilter gives each its own Session; conf and           *)
(* rejectDomains are the globals all of them read.  In this specification  *)
(* s, macros, phase, hist, start, resp, err and logged hold one value per  *)
(* connection, pre is s before the step, and last names the connection     *)
(* that stepped and its callback.                                          *)
(***************************************************************************)
Conns == {1, 2}

MaxConcHeaders == 1     \* header events delivered per transaction, here

ConcEvents == {
    [name |-> HdrFrom,    value |-> FromPlain],
    [name |-> HdrAuthres, value |-> ArValue(mail_club1_fr, <<Dmarc("fail", gmail_com)>>)],
    [name |-> HdrAuthres, value |-> ArValue(mail_club1_fr, <<Dmarc("pass", gmail_com)>>)] }

\* Mutant: NewMilter hands every connection one and the same Session.
Put_Shared(sessions, k, sess) == [j \in DOMAIN sessions |-> sess]

\* The Session of connection k is written; it is that connection's own.
Put(sessions, k, sess) == [sessions EXCEPT ![k] = sess]

ConcInit ==
    /\ conf \in { LoadConf(f) : f \in ConfFiles }
    /\ rejectDomains = BuildRejectDomains(conf.RejectDomains)
    /\ s = [k \in Conns |-> ZeroSession]
    /\ macros = [k \in Conns |-> NoMacros]
    /\ phase = [k \in Conns |-> "idle"]
    /\ hist = [k \in Conns |-> <<>>]
    /\ start = [k \in Conns |-> ZeroSession]
    /\ pre = [k \in Conns |-> ZeroSession]
    /\ last = <<0, "NewMilter">>
    /\ resp = [k \in Conns |-> RespContinue]
    /\ err = [k \in Conns |-> FALSE]
    /\ logged = [k \in Conns |-> <<>>]

ConnMailFrom(k, auth, queueID) ==
    /\ phase[k] \in {"idle", "decided"}
    /\ LET m == [i |-> queueID, auth_authen |-> auth]
           r == MailFromCall(s[k], m)
       IN /\ macros' = [macros EXCEPT ![k] = m]
          /\ s' = Put(s, k, r.s)
          /\ resp' = [resp EXCEPT ![k] = r.resp]
          /\ err' = [err EXCEPT ![k] = r.err]
          /\ logged' = [logged EXCEPT ![k] = r.logged]
          /\ phase' = [phase EXCEPT ![k] = IF r.resp = RespContinue THEN "headers" ELSE "idle"]
    /\ hist' = [hist EXCEPT ![k] = <<>>]
    /\ start' = [start EXCEPT ![k] = s[k]]
    /\ pre' = s
    /\ last' = <<k, "MailFrom">>
    /\ UNCHANGED <<conf, rejectDomains>>

ConnHeader(k, ev) ==
    /\ phase[k] = "headers"
    /\ Len(hist[k]) < MaxConcHeaders
    /\ LET r == HeaderCall(s[k], ev.name, ev.value, macros[k])
       IN /\ s' = Put(s, k, r.s)
          /\ resp' = [resp EXCEPT ![k] = r.resp]
          /\ err' = [err EXCEPT ![k] = r.err]
          /\ logged' = [logged EXCEPT ![k] = r.logged]
    /\ hist' = [hist EXCEPT ![k] = Append(@, ev)]
    /\ pre' = s
    /\ last' = <<k, "Header">>
    /\ UNCHANGED <<conf, rejectDomains, macros, phase, start>>

ConnHeaders(k) ==
    /\ phase[k] = "headers"
    /\ LET r == HeadersCall(s[k], macros[k])
       IN /\ s' = Put(s, k, r.s)
          /\ resp' = [resp EXCEPT ![k] = r.resp]
          /\ err' = [err EXCEPT ![k] = r.err]
          /\ logged' = [logged EXCEPT ![k] = r.logged]
    /\ phase' = [phase EXCEPT ![k] = "decided"]
    /\ pre' = s
    /\ last' = <<k, "Headers">>
    /\ UNCHANGED <<conf, rejectDomains, macros, hist, start>>

ConcNext ==
    \/ \E k \in Conns, auth \in AuthMacros, queueID \in QueueIDs : ConnMailFrom(k, auth, queueID)
    \/ \E k \in Conns, ev \in ConcEvents : ConnHeader(k, ev)
    \/ \E k \in Conns : ConnHeaders(k)

SpecConcurrent == ConcInit /\ [][ConcNext]_vars

(***************************************************************************)
(* C24: connections do not interfere: under every interleaving of their    *)
(* MailFrom, Header and Headers events, a step of one connection leaves    *)
(* the Session of every other as it was; the Session of each is the one    *)
(* its own header events lead to from the Session its transaction began    *)
(* with, and its decision and audit line are those of that Session; and    *)
(* the configuration and the table of reject domains stay as main() built  *)
(* them.                                                                   *)
(***************************************************************************)
C24_ConnectionsDoNotInterfere ==
    /\ conf \in { LoadConf(f) : f \in ConfFiles }
    /\ rejectDomains = BuildRejectDomains(conf.RejectDomains)
    /\ \A k \in Conns :
         /\ last[1] # k => s[k] = pre[k]
         /\ phase[k] \in {"headers", "decided"}
            => s[k] = Replay(start[k], hist[k], macros[k])
         /\ phase[k] = "decided"
            => LET r == HeadersCall(Replay(start[k], hist[k], macros[k]), macros[k])
               IN /\ resp[k] = r.resp
                  /\ logged[k] = r.logged

\* Connection 2 has been accepted on a pass while connection 1, in the
\* middle of its headers, holds a rejecting verdict for the same domain.
C24_Witness ==
    /\ last = <<2, "Headers">>
    /\ phase[1] = "headers"
    /\ s[1].shouldReject
    /\ s[1].dmarcResult.From = gmail_com
    /\ phase[2] = "decided"
    /\ s[2].dmarcResult.Value = ResultPass
    /\ s[2].dmarcResult.From = gmail_com
    /\ resp[2] = RespAccept

(***************************************************************************)
(* C31: in every state of the Session the Authentication-Results mark is   *)
(* set exactly when a verdict is stored, the From mark is set whenever the *)
(* stored From value is not empty, and with the From mark clear the stored *)
(* From value is empty.                                                    *)
(***************************************************************************)
C31_MarksAgreeWithFields ==
    /\ AuthresCaptured(s) = (s.dmarcResult # NilResult)
    /\ s.headerFrom # EmptyStr => FromCaptured(s)
    /\ ~FromCaptured(s) => s.headerFrom = EmptyStr

\* A From value is held, and a matching header without a DMARC entry has
\* just been read: no verdict, and the mark still clear.
C31_Witness ==
    /\ last = "Header"
    /\ NoDmarc(LastEvent)
    /\ FromCaptured(s)
    /\ s.headerFrom # EmptyStr
    /\ ~AuthresCaptured(s)
    /\ s.dmarcResult = NilResult

====
